---- MODULE Spec2Model ----
(***************************************************************************)
(* A model of the eduproback backend.                                      *)
(*                                                                         *)
(*   src/server.js  the requireAuth middleware, the four record routes     *)
(*                  (POST/GET /api/notes, POST/GET /api/career) and the    *)
(*                  two collections they write and read;                   *)
(*   src/search.js  webSearch, the DuckDuckGo instant-answer client.       *)
(*                                                                         *)
(* Every request is one slot of the function reqs.  An action is one run   *)
(* of the event loop: the synchronous code between two awaits.             *)
(***************************************************************************)
EXTENDS Naturals, Sequences, FiniteSets, TLC

VARIABLES
    BYPASS_AUTH,   \* server.js:26, read once at start
    reqs,          \* the requests: slot -> request record
    db,            \* the two collections, each in insertion order
    now,           \* Date.now(), the clock createdAt is stamped from
    lastSaved,     \* per collection and owner: the document whose save completed last
    call           \* the webSearch call (search.js)

vars == <<BYPASS_AUTH, reqs, db, now, lastSaved, call>>

(***************************************************************************)
(* Bounds                                                                  *)
(***************************************************************************)
MaxClock == 1     \* Date.now() takes the values 0..MaxClock
MaxTopics == 2    \* longest RelatedTopics array the provider returns
MaxResultsMax == 2 \* largest maxResults a caller passes
MaxElapsed == 12  \* seconds a webSearch call is observed for

\* the requests in flight together: three on the record routes with
\* well-formed credentials, two with every kind of authorization header
RecordSlots == {1, 2, 3}
AuthSlots == {1, 2}
Slots == RecordSlots \cup AuthSlots

(***************************************************************************)
(* JavaScript values                                                       *)
(***************************************************************************)
Undefined == "undefined"
Null == "null"

Truthy(v) == v # Undefined /\ v # Null /\ v # ""

(***************************************************************************)
(* Authorization headers.  A header is absent, or a text: a sequence of    *)
(* pieces, each piece a blank " " or a run of non-blank characters.        *)
(***************************************************************************)
NoHeader == [present |-> FALSE, text |-> <<>>]
Text(t) == [present |-> TRUE, text |-> t]

TokenA == "tokA"
TokenB == "tokB"
TokenX == "tokX"   \* a token the identity provider does not know

WellFormedHeaders ==
    { Text(<<"Bearer", " ", TokenA>>), Text(<<"Bearer", " ", TokenB>>) }

\* absent, empty, a single word, or no token after the blank
MissingHeaders ==
    { NoHeader, Text(<<>>), Text(<<"Bearer">>), Text(<<TokenA>>),
      Text(<<"Bearer", " ">>) }

\* a token, but no well-formed bearer credential
GarbledHeaders ==
    { Text(<<"Bearer", " ", " ", TokenA>>), Text(<<"Basic", " ", TokenA>>),
      Text(<<TokenA, " ", TokenB>>) }

AllHeaders ==
    WellFormedHeaders \cup MissingHeaders \cup GarbledHeaders
        \cup { Text(<<"Bearer", " ", TokenX>>) }

\* String.prototype.split(' '): a blank closes the current part and opens a new one
RECURSIVE Split(_)
Split(t) ==
    IF t = <<>> THEN <<"">>
    ELSE LET init == Split(SubSeq(t, 1, Len(t) - 1))
             last == t[Len(t)]
         IN IF last = " " THEN Append(init, "")
            ELSE [init EXCEPT ![Len(init)] = @ \o last]

\* req.headers.authorization?.split(' ')[1]
ExtractToken(h) ==
    IF ~h.present THEN Undefined
    ELSE LET parts == Split(h.text)
         IN IF Len(parts) >= 2 THEN parts[2] ELSE Undefined

(***************************************************************************)
(* The identity provider (supabase.auth.getUser)                           *)
(***************************************************************************)
EmailA == "a@x.com"
EmailB == "b@x.com"
DevEmail == "test@dev.com"
Emails == {EmailA, EmailB, DevEmail}

NullUser == [isNull |-> TRUE, email |-> Undefined]
User(email) == [isNull |-> FALSE, email |-> email]

UserOf(token) ==
    IF token = TokenA THEN User(EmailA)
    ELSE IF token = TokenB THEN User(EmailB)
    ELSE NullUser

\* what a promise settles with: a value { data: { user }, error }, or a rejection
NotSettled == [kind |-> "none", data |-> [user |-> NullUser], error |-> Null]
Rejected(msg) == [kind |-> "rejected", data |-> [user |-> NullUser], error |-> msg]
Resolved(user, error) == [kind |-> "resolved", data |-> [user |-> user], error |-> error]

\* what a getUser(token) call may settle with
ProviderOutcomes(token) ==
    { Resolved(UserOf(token), IF UserOf(token).isNull THEN "invalid JWT" ELSE Null),
      Resolved(NullUser, "provider error"),
      Resolved(NullUser, Null),
      Rejected("fetch failed") }

\* the check of line 85 left out
ProviderOkUnchecked(res) == TRUE

\* server.js:85, negated: the lookup gave a user and no error
ProviderOk(res) == ~(Truthy(res.error) \/ res.data.user.isNull)

(***************************************************************************)
(* Responses                                                               *)
(***************************************************************************)
NoResponse == [status |-> 0, body |-> Null]
NoTokenResponse == [status |-> 401, body |-> [error |-> "No token provided"]]
AuthFailedResponse ==
    [status |-> 401, body |-> [success |-> FALSE, error |-> "Authentication failed."]]
ServerErrorResponse(msg) ==
    [status |-> 500, body |-> [success |-> FALSE, error |-> msg]]

(***************************************************************************)
(* Routes and the record store                                             *)
(***************************************************************************)
Collections == {"Note", "CareerReport"}
Routes == { [method |-> m, coll |-> c] : m \in {"POST", "GET"}, c \in Collections }

NoBody == [title |-> Undefined, email |-> Undefined]
PostBodies == { [title |-> "mine", email |-> Undefined],
                [title |-> "forged", email |-> EmailB] }
ForgedBodies == { b \in PostBodies : Truthy(b.email) }
BodiesOf(route, bodies) == IF route.method = "POST" THEN bodies ELSE {NoBody}

NoDoc == [id |-> 0, email |-> Undefined, title |-> Undefined, createdAt |-> 0]

\* new Note({ email: req.userEmail, ... }) / new CareerReport({ ... }):
\* the owner is the verified identity, createdAt defaults to Date.now()
NewDoc(id, userEmail, body, clock) ==
    [id |-> id, email |-> userEmail, title |-> body.title, createdAt |-> clock]

\* find() with no filter
MatchesAny(doc, userEmail) == TRUE

\* the filter { email: req.userEmail }
Matches(doc, userEmail) == doc.email = userEmail

\* .sort({ createdAt: 1 }): oldest first
SortedAsc(list) ==
    \A i \in 1..Len(list) : \A j \in 1..Len(list) :
        i < j => list[i].createdAt <= list[j].createdAt

\* .sort({ createdAt: -1 })
SortedDesc(list) ==
    \A i \in 1..Len(list) : \A j \in 1..Len(list) :
        i < j => list[i].createdAt >= list[j].createdAt

\* the lists find(...).sort(...) may return: the matching documents, newest
\* first, documents of equal createdAt in any order
FindResults(coll, userEmail) ==
    LET match == SelectSeq(coll, LAMBDA d : Matches(d, userEmail))
        n == Len(match)
    IN { [i \in 1..n |-> match[p[i]]] :
           p \in { q \in [1..n -> 1..n] :
                     /\ \A i \in 1..n : \A j \in 1..n : i # j => q[i] # q[j]
                     /\ SortedDesc([i \in 1..n |-> match[q[i]]]) } }

(***************************************************************************)
(* Requests                                                                *)
(***************************************************************************)
EmptyLastSaved == [c \in Collections |-> [e \in Emails |-> 0]]

IdleReq ==
    [ pc |-> "idle", route |-> [method |-> "GET", coll |-> "Note"],
      header |-> NoHeader, body |-> NoBody, token |-> Undefined,
      userEmail |-> Undefined,
      lookup |-> "none",      \* the getUser call: none, pending, settled
      raceResult |-> NotSettled,   \* what Promise.race settled with
      lateUser |-> FALSE,     \* the lookup gave a user after it lost the race
      timer |-> "none",       \* the 5 s timer: none, armed, fired (it won the race),
                              \* lost (the lookup won: its firing rejects a promise
                              \* nobody awaits)
      nexted |-> FALSE,       \* next() was called
      storeOps |-> 0,         \* save() and find() calls made
      doc |-> NoDoc,
      seen |-> [e \in Emails |-> 0],       \* lastSaved of the collection when a list was issued
      latest |-> 0,           \* lastSaved for the owner when find ran
      response |-> NoResponse ]


NoCall == [pc |-> "idle"]

Respond(rq, resp) == [rq EXCEPT !.pc = "done", !.response = resp]

\* the route handler up to its await: it runs inside next()
Handler(r, rq) ==
    IF rq.route.method = "POST"
    THEN [rq EXCEPT !.pc = "save", !.storeOps = @ + 1,
                    !.doc = NewDoc(r, rq.userEmail, rq.body, now)]
    ELSE [rq EXCEPT !.pc = "find", !.storeOps = @ + 1]

\* req.userEmail = ...; next()
Pass(r, rq, email) ==
    Handler(r, [rq EXCEPT !.userEmail = email, !.nexted = TRUE])

\* requireAuth from its first line to its first await
RequireAuth(r, rq) ==
    IF BYPASS_AUTH THEN Pass(r, rq, DevEmail)
    ELSE LET token == ExtractToken(rq.header)
         IN IF ~Truthy(token) THEN Respond(rq, NoTokenResponse)
            ELSE [rq EXCEPT !.pc = "race", !.token = token,
                            !.lookup = "pending", !.timer = "armed"]

\* the catch block answering with err.message in place of the generic text
AfterRaceLeaky(r, rq, res) ==
    IF res.kind = "rejected"
    THEN Respond(rq, [status |-> 401, body |-> [success |-> FALSE, error |-> res.error]])
    ELSE IF Truthy(res.error) \/ res.data.user.isNull
    THEN Respond(rq, [status |-> 401, body |-> [success |-> FALSE, error |-> "Invalid token"]])
    ELSE Pass(r, rq, res.data.user.email)

\* requireAuth after the await, the race settled with res
AfterRace(r, rq, res) ==
    IF res.kind = "rejected" THEN Respond(rq, AuthFailedResponse)
    ELSE IF ~ProviderOk(res) THEN Respond(rq, AuthFailedResponse)
    ELSE Pass(r, rq, res.data.user.email)

\* the lookup awaited on its own, not raced: its late result is acted on
AbandonedHonoured(r, rq, res) ==
    AfterRace(r, [rq EXCEPT !.lookup = "settled", !.pc = "race"], res)

\* the lookup settles after the timer won: Promise.race has settled, the
\* result goes nowhere
Abandoned(r, rq, res) ==
    [rq EXCEPT !.lookup = "settled",
               !.lateUser = (res.kind = "resolved" /\ ~res.data.user.isNull)]

(***************************************************************************)
(* Actions of the server                                                   *)
(***************************************************************************)
Init ==
    /\ BYPASS_AUTH \in BOOLEAN
    /\ reqs = [r \in Slots |-> IdleReq]
    /\ db = [c \in Collections |-> <<>>]
    /\ now = 0
    /\ lastSaved = EmptyLastSaved
    /\ call = NoCall

\* a request reaches a record route
Arrive(r, headers, bodies) ==
    /\ reqs[r].pc = "idle"
    /\ IF r = 1 THEN TRUE ELSE reqs[r - 1].pc # "idle"
    /\ \E route \in Routes : \E h \in headers : \E b \in BodiesOf(route, bodies) :
         reqs' = [reqs EXCEPT ![r] =
            RequireAuth(r, [IdleReq EXCEPT !.route = route, !.header = h, !.body = b,
                                           !.seen = IF route.method = "GET"
                                                    THEN lastSaved[route.coll] ELSE @])]
    /\ UNCHANGED <<BYPASS_AUTH, db, now, lastSaved, call>>

\* supabase.auth.getUser settles
LookupSettles(r) ==
    /\ reqs[r].lookup = "pending"
    /\ \E res \in ProviderOutcomes(reqs[r].token) :
         reqs' = [reqs EXCEPT ![r] =
            IF reqs[r].pc = "race"
            THEN AfterRace(r, [reqs[r] EXCEPT !.lookup = "settled", !.timer = "lost",
                                              !.raceResult = res], res)
            ELSE Abandoned(r, reqs[r], res)]
    /\ UNCHANGED <<BYPASS_AUTH, db, now, lastSaved, call>>

\* the 5 s timer fires: reject(new Error('Supabase Timeout'))
TimerFires(r) ==
    /\ reqs[r].timer = "armed"
    /\ reqs[r].pc = "race"
    /\ reqs' = [reqs EXCEPT ![r] =
            AfterRace(r, [reqs[r] EXCEPT !.timer = "fired",
                                         !.raceResult = Rejected("Supabase Timeout")],
                      Rejected("Supabase Timeout"))]
    /\ UNCHANGED <<BYPASS_AUTH, db, now, lastSaved, call>>

\* newNote.save() / newReport.save() completes
SaveCompletes(r) ==
    /\ reqs[r].pc = "save"
    /\ LET rq == reqs[r]
           c == rq.route.coll
       IN /\ db' = [db EXCEPT ![c] = Append(@, rq.doc)]
          /\ lastSaved' = [lastSaved EXCEPT ![c][rq.doc.email] = rq.doc.id]
          /\ reqs' = [reqs EXCEPT ![r] = Respond(rq,
                 [status |-> 200,
                  body |-> IF c = "Note" THEN [success |-> TRUE, note |-> rq.doc]
                           ELSE [success |-> TRUE]])]
    /\ UNCHANGED <<BYPASS_AUTH, now, call>>

\* find({ email }).sort({ createdAt: -1 }) completes
FindCompletes(r) ==
    /\ reqs[r].pc = "find"
    /\ LET rq == reqs[r]
           c == rq.route.coll
       IN \E list \in FindResults(db[c], rq.userEmail) :
            reqs' = [reqs EXCEPT ![r] =
                Respond([rq EXCEPT !.latest = lastSaved[c][rq.userEmail]],
                        [status |-> 200, body |-> list])]
    /\ UNCHANGED <<BYPASS_AUTH, db, now, lastSaved, call>>

\* the record store fails the operation: the handler's catch
StoreFails(r) ==
    /\ reqs[r].pc \in {"save", "find"}
    /\ reqs' = [reqs EXCEPT ![r] =
            Respond([reqs[r] EXCEPT !.doc = NoDoc], ServerErrorResponse("store error"))]
    /\ UNCHANGED <<BYPASS_AUTH, db, now, lastSaved, call>>

\* a millisecond passes
Tick ==
    /\ now < MaxClock
    /\ now' = now + 1
    /\ UNCHANGED <<BYPASS_AUTH, reqs, db, lastSaved, call>>

ServerNext(slots, headers, bodies) ==
    \/ \E r \in slots : Arrive(r, headers, bodies)
    \/ \E r \in slots : LookupSettles(r)
    \/ \E r \in slots : TimerFires(r)
    \/ \E r \in slots : SaveCompletes(r)
    \/ \E r \in slots : FindCompletes(r)
    \/ \E r \in slots : StoreFails(r)
    \/ Tick

Next == ServerNext(RecordSlots, WellFormedHeaders, ForgedBodies)
Spec == Init /\ [][Next]_vars

AuthNext == ServerNext(AuthSlots, AllHeaders, PostBodies)
AuthSpec == Init /\ [][AuthNext]_vars

(***************************************************************************)
(* Claims about the authentication gate and the record routes              *)
(***************************************************************************)
\* the identity provider resolved the token to a user, in time and with no error
LookupSucceeded(rq) ==
    /\ rq.raceResult.kind = "resolved"
    /\ rq.raceResult.error = Null
    /\ ~rq.raceResult.data.user.isNull

VerificationSucceeded(rq) == BYPASS_AUTH \/ LookupSucceeded(rq)

\* the identity a request was verified as
VerifiedAs(rq) ==
    IF BYPASS_AUTH THEN DevEmail
    ELSE IF LookupSucceeded(rq) THEN rq.raceResult.data.user.email
    ELSE Undefined

\* the request was turned away by requireAuth
TurnedAway(rq) == rq.pc = "done" /\ ~rq.nexted

Listed(rq) == rq.pc = "done" /\ rq.route.method = "GET" /\ rq.response.status = 200

\* C1: a request has called save() or find(), or has a document in a
\* collection, only if its identity verification had succeeded before; a
\* request whose verification failed (no token, provider error, no user,
\* rejection, 5 s timer) has made no record-store call.
C1_VerifyBeforeStore ==
    /\ \A r \in Slots :
         /\ reqs[r].storeOps > 0 => VerificationSucceeded(reqs[r]) /\ reqs[r].nexted
         /\ reqs[r].pc \in {"save", "find"} => reqs[r].storeOps > 0
         /\ (reqs[r].pc = "done" /\ ~VerificationSucceeded(reqs[r]))
               => reqs[r].storeOps = 0 /\ reqs[r].response.status = 401
    /\ \A c \in Collections : \A i \in 1..Len(db[c]) :
         VerificationSucceeded(reqs[db[c][i].id])

C1_Witness ==
    /\ ~BYPASS_AUTH
    /\ \E r \in Slots : /\ reqs[r].pc = "done" /\ reqs[r].response.status = 200
                        /\ reqs[r].storeOps = 1
    /\ \E r \in Slots : /\ reqs[r].pc = "done" /\ reqs[r].timer = "fired"
                        /\ reqs[r].storeOps = 0

\* C2: in normal mode a request whose authorization header is missing or
\* garbled is answered "no token" and getUser is never called for it.
C2_GarbledNeverReachesProvider ==
    \A r \in Slots :
        (~BYPASS_AUTH /\ reqs[r].pc # "idle"
            /\ reqs[r].header \in MissingHeaders \cup GarbledHeaders)
        => /\ reqs[r].lookup = "none"
           /\ reqs[r].response = NoTokenResponse

\* C3: once the 5 s timer has fired on a lookup that had not settled, the
\* request is answered "authentication failed", next() is never called and
\* req.userEmail stays unset, whatever the lookup settles with afterwards.
C3_TimerWins ==
    \A r \in Slots :
        reqs[r].timer = "fired"
        => /\ reqs[r].pc = "done"
           /\ reqs[r].response.status = 401
           /\ reqs[r].response.body = [success |-> FALSE, error |-> "Authentication failed."]
           /\ ~reqs[r].nexted
           /\ reqs[r].userEmail = Undefined
           /\ reqs[r].storeOps = 0

C3_Witness ==
    \E r \in Slots :
        /\ reqs[r].timer = "fired"
        /\ reqs[r].lookup = "settled"
        /\ reqs[r].lateUser

\* C4: a list answered to a request verified as identity A holds only
\* documents whose owner is A and that were created by requests verified as A.
C4_OwnRecordsOnly ==
    \A r \in Slots :
        Listed(reqs[r])
        => \A i \in 1..Len(reqs[r].response.body) :
              LET d == reqs[r].response.body[i]
              IN /\ d.email = VerifiedAs(reqs[r])
                 /\ VerifiedAs(reqs[d.id]) = VerifiedAs(reqs[r])

C4_Witness ==
    \E r \in Slots :
        /\ Listed(reqs[r])
        /\ VerifiedAs(reqs[r]) = EmailA
        /\ Len(reqs[r].response.body) > 0
        /\ \E i \in 1..Len(db[reqs[r].route.coll]) :
              db[reqs[r].route.coll][i].email = EmailB

\* a list issued after a create by the same identity completed, with no other
\* create by that identity completing before the find ran
ListedAfterCreate(rq) ==
    /\ Listed(rq)
    /\ rq.latest # 0
    /\ rq.seen[rq.userEmail] = rq.latest

\* C9 as claimed: such a list has the newly created record as its first element.
C9_NewRecordFirst ==
    \A r \in Slots :
        ListedAfterCreate(reqs[r])
        => /\ Len(reqs[r].response.body) > 0
           /\ reqs[r].response.body[1].id = reqs[r].latest
           /\ reqs[r].response.body[1].email = VerifiedAs(reqs[r])

\* C9: such a list holds the newly created record, owned by the verified
\* identity and not by the body's email, ahead of every record with an earlier
\* createdAt: it is first unless another record of that identity carries a
\* createdAt equal to or later than its own.
C9_NewRecordAheadOfOlder ==
    \A r \in Slots :
        ListedAfterCreate(reqs[r])
        => LET list == reqs[r].response.body
           IN \E i \in 1..Len(list) :
                /\ list[i].id = reqs[r].latest
                /\ list[i].email = VerifiedAs(reqs[r])
                /\ list[i].email = reqs[list[i].id].userEmail
                /\ \A j \in 1..Len(list) :
                      list[j].createdAt < list[i].createdAt => i < j
                /\ (\A j \in 1..Len(list) :
                      j # i => list[j].createdAt < list[i].createdAt) => i = 1

C9_Witness ==
    \E r \in Slots :
        /\ ListedAfterCreate(reqs[r])
        /\ Len(reqs[r].response.body) >= 2
        /\ reqs[r].response.body[1].id = reqs[r].latest
        /\ reqs[r].response.body[1].email # reqs[reqs[r].latest].body.email

SearchTimeout == 10   \* seconds: setTimeout(() => controller.abort(), 10000)
MinLength == 20       \* s.length > 20

Text5 == "short"
Text20 == "exactly twenty chars"
Text21 == "twenty-one characters"
Text30 == "thirty characters of some text"

\* a query encodeURIComponent accepts, and one it throws URIError on
Queries == {"photosynthesis", "lone surrogate"}
Encodable(query) == query # "lone surrogate"

\* the decoded bodies the provider may send
NullTopic == [isNull |-> TRUE, Text |-> Undefined]
Topic(text) == [isNull |-> FALSE, Text |-> text]
Topics == {NullTopic} \cup { Topic(t) : t \in {Undefined, Text5, Text20, Text21, Text30} }
TopicLists == UNION { [1..n -> Topics] : n \in 0..MaxTopics }

NullData == [isNull |-> TRUE, Abstract |-> Undefined,
             RelatedTopics |-> [kind |-> "missing", items |-> <<>>]]
Data(abstract, related) ==
    [isNull |-> FALSE, Abstract |-> abstract, RelatedTopics |-> related]
Bodies ==
    {NullData} \cup
    { Data(a, rel) :
        a \in {Undefined, "", Text20, Text21},
        rel \in { [kind |-> "missing", items |-> <<>>], [kind |-> "object", items |-> <<>>] }
                  \cup { [kind |-> "array", items |-> l] : l \in TopicLists } }

\* an exception, and a value a step of the try block completes with
Error(name, message) == [name |-> name, message |-> message]

\* Array.prototype.slice(0, n), n >= 0
Slice(list, n) == SubSeq(list, 1, IF n < Len(list) THEN n ELSE Len(list))

\* lines 34-48: the snippets array, or the TypeError a null body or a null
\* topic among the visited ones throws
RECURSIVE CollectTopics(_, _)
CollectTopics(snippets, topics) ==
    IF topics = <<>> THEN [threw |-> FALSE, snippets |-> snippets]
    ELSE IF Head(topics).isNull THEN [threw |-> TRUE, snippets |-> snippets]
    ELSE CollectTopics(IF Truthy(Head(topics).Text)
                       THEN Append(snippets, Head(topics).Text) ELSE snippets,
                       Tail(topics))

Collect(data, maxResults) ==
    IF data.isNull THEN [threw |-> TRUE, snippets |-> <<>>]
    ELSE LET first == IF Truthy(data.Abstract) THEN <<data.Abstract>> ELSE <<>>
         IN IF data.RelatedTopics.kind = "array"
            THEN CollectTopics(first, Slice(data.RelatedTopics.items, maxResults))
            ELSE [threw |-> FALSE, snippets |-> first]

\* s.length >= 20
KeepFrom20(s) == Truthy(s) /\ Len(s) >= MinLength

\* line 63: s => s && s.length > 20
Keep(s) == Truthy(s) /\ Len(s) > MinLength

\* lines 62-64: .filter(...).slice(0, maxResults)
Kept(snippets, maxResults) == Slice(SelectSeq(snippets, Keep), maxResults)

\* line 65: .map((snippet, idx) => `[${idx + 1}] ${snippet}`)
Entries(kept) == [i \in 1..Len(kept) |-> "[" \o ToString(i) \o "] " \o kept[i]]

\* line 66: .join('\n\n')
RECURSIVE Join(_)
Join(entries) ==
    IF entries = <<>> THEN ""
    ELSE IF Len(entries) = 1 THEN entries[1]
    ELSE entries[1] \o "\n\n" \o Join(Tail(entries))

NoResult == [raised |-> FALSE, ok |-> FALSE, snippets |-> Null, error |-> Null,
             message |-> Null]
Returned(ok, snippets, error, message) ==
    [raised |-> FALSE, ok |-> ok, snippets |-> snippets, error |-> error,
     message |-> message]
\* an exception that leaves webSearch
Raised(err) == [NoResult EXCEPT !.raised = TRUE, !.error = err.message]

\* a catch block that handles the abort alone and throws the rest again
CatchAbortOnly(err) ==
    IF err.name = "AbortError"
    THEN Returned(FALSE, Null, "Search timed out", Null)
    ELSE Raised(err)

\* lines 73-89: the catch block
Catch(err) ==
    IF err.name = "AbortError"
    THEN Returned(FALSE, Null, "Search timed out", Null)
    ELSE Returned(FALSE, Null, err.message, Null)

\* lines 53-71: the result for a snippets array
Format(snippets, maxResults) ==
    IF Len(snippets) = 0
    THEN Returned(TRUE, Null, Null, "No search results found")
    ELSE Returned(TRUE, Join(Entries(Kept(snippets, maxResults))), Null, Null)

IdleCall ==
    [ pc |-> "idle", query |-> "", maxResults |-> 0,
      timer |-> "none",      \* the abort timer: none, armed, cleared, fired
      elapsed |-> 0,         \* seconds since the call
      outcome |-> "none",    \* what the external call came to
      data |-> NullData,     \* the decoded body
      snippets |-> <<>>,     \* the snippets array of lines 34-48
      kept |-> <<>>,         \* the snippets that were formatted
      result |-> NoResult ]

Return(c, result) == [c EXCEPT !.pc = "done", !.result = result]

\* webSearch(query, maxResults) up to await fetch(...)
WebSearch(query, maxResults) ==
    /\ call.pc = "idle"
    /\ LET c == [IdleCall EXCEPT !.query = query, !.maxResults = maxResults]
       IN call' = IF ~Encodable(query)
                  THEN Return([c EXCEPT !.outcome = "uri"],
                              Catch(Error("URIError", "URI malformed")))
                  ELSE [c EXCEPT !.pc = "fetch", !.timer = "armed"]
    /\ UNCHANGED <<BYPASS_AUTH, reqs, db, now, lastSaved>>

\* fetch resolves with the response's status line: clearTimeout, the status check
FetchResolves(ok) ==
    /\ call.pc = "fetch"
    /\ call' = IF ~ok
               THEN Return([call EXCEPT !.timer = "cleared", !.outcome = "status"],
                           Catch(Error("Error", "Search API returned 500")))
               ELSE [call EXCEPT !.pc = "json", !.timer = "cleared"]
    /\ UNCHANGED <<BYPASS_AUTH, reqs, db, now, lastSaved>>

\* fetch rejects: the network failed; the timer stays armed
FetchRejects ==
    /\ call.pc = "fetch"
    /\ call' = Return([call EXCEPT !.outcome = "network"],
                      Catch(Error("FetchError", "request failed")))
    /\ UNCHANGED <<BYPASS_AUTH, reqs, db, now, lastSaved>>

\* the 10 s timer fires: controller.abort(); a pending fetch rejects with AbortError
AbortTimerFires ==
    /\ call.timer = "armed"
    /\ call.elapsed >= SearchTimeout
    /\ call' = IF call.pc = "fetch"
               THEN Return([call EXCEPT !.timer = "fired", !.outcome = "abort"],
                           Catch(Error("AbortError", "The user aborted a request.")))
               ELSE [call EXCEPT !.timer = "fired"]
    /\ UNCHANGED <<BYPASS_AUTH, reqs, db, now, lastSaved>>

\* response.json() resolves with the decoded body: lines 33-71
JsonResolves(data) ==
    /\ call.pc = "json"
    /\ LET got == Collect(data, call.maxResults)
       IN call' =
            IF got.threw
            THEN Return([call EXCEPT !.outcome = "shape", !.data = data],
                        Catch(Error("TypeError", "Cannot read properties of null")))
            ELSE Return([call EXCEPT !.outcome = "body", !.data = data,
                                     !.snippets = got.snippets,
                                     !.kept = IF Len(got.snippets) = 0 THEN <<>>
                                              ELSE Kept(got.snippets, call.maxResults)],
                        Format(got.snippets, call.maxResults))
    /\ UNCHANGED <<BYPASS_AUTH, reqs, db, now, lastSaved>>

\* response.json() rejects: the body is no JSON
JsonRejects ==
    /\ call.pc = "json"
    /\ call' = Return([call EXCEPT !.outcome = "json"],
                      Catch(Error("SyntaxError", "Unexpected token < in JSON")))
    /\ UNCHANGED <<BYPASS_AUTH, reqs, db, now, lastSaved>>

\* a second passes; a timer that is due fires before the next second
SearchTick ==
    /\ call.pc \in {"fetch", "json"} \/ call.timer = "armed"
    /\ call.elapsed < MaxElapsed
    /\ ~(call.timer = "armed" /\ call.elapsed >= SearchTimeout)
    /\ call' = [call EXCEPT !.elapsed = @ + 1]
    /\ UNCHANGED <<BYPASS_AUTH, reqs, db, now, lastSaved>>

SearchInit ==
    /\ BYPASS_AUTH = FALSE
    /\ reqs = [r \in Slots |-> IdleReq]
    /\ db = [c \in Collections |-> <<>>]
    /\ now = 0
    /\ lastSaved = EmptyLastSaved
    /\ call = IdleCall

SearchNext ==
    \/ \E q \in Queries : \E n \in 0..MaxResultsMax : WebSearch(q, n)
    \/ \E ok \in BOOLEAN : FetchResolves(ok)
    \/ FetchRejects
    \/ AbortTimerFires
    \/ \E data \in Bodies : JsonResolves(data)
    \/ JsonRejects
    \/ SearchTick

SearchSpec == SearchInit /\ [][SearchNext]_vars

(***************************************************************************)
(* Claims about webSearch                                                  *)
(***************************************************************************)
Returns == call.pc = "done"

HasNullTopic(data) ==
    /\ ~data.isNull
    /\ data.RelatedTopics.kind = "array"
    /\ \E i \in 1..Len(data.RelatedTopics.items) : data.RelatedTopics.items[i].isNull

HasNullTopicAmongFirst(data, n) ==
    /\ ~data.isNull
    /\ data.RelatedTopics.kind = "array"
    /\ \E i \in 1..Len(data.RelatedTopics.items) :
         i <= n /\ data.RelatedTopics.items[i].isNull

ExternalFailure == call.outcome \in {"network", "abort", "status", "json"}
BodyDecoded == call.outcome \in {"shape", "body"}

FailureResult ==
    /\ ~call.result.raised
    /\ call.result.ok = FALSE
    /\ call.result.snippets = Null

\* C5 as claimed: webSearch never raises, and a network failure, an abort, a
\* non-success status, a malformed body, a null body or a body with a null
\* related topic gives ok = false and snippets = null.
C5_EveryNullTopicFails ==
    Returns =>
        /\ ~call.result.raised
        /\ ExternalFailure => FailureResult
        /\ (BodyDecoded /\ (call.data.isNull \/ HasNullTopic(call.data))) => FailureResult

\* C5: webSearch never raises, and a network failure, an abort, a non-success
\* status, a malformed body, a null body or a body with a null related topic
\* among its first maxResults topics gives ok = false and snippets = null; a
\* null topic further on is never read and the call succeeds.
C5_NeverRaises ==
    Returns =>
        /\ ~call.result.raised
        /\ call.result.ok \in BOOLEAN
        /\ ExternalFailure => FailureResult
        /\ (BodyDecoded /\ (call.data.isNull
                            \/ HasNullTopicAmongFirst(call.data, call.maxResults)))
              => FailureResult
        /\ (BodyDecoded /\ ~call.data.isNull
                /\ ~HasNullTopicAmongFirst(call.data, call.maxResults))
              => call.result.ok

C5_Witness ==
    /\ Returns
    /\ BodyDecoded
    /\ HasNullTopicAmongFirst(call.data, call.maxResults)
    /\ Len(call.data.RelatedTopics.items) >= 2
    /\ FailureResult

\* the candidates of a decoded body: the abstract if it is there, then the
\* texts that are there of the first maxResults related topics
RECURSIVE TopicTexts(_)
TopicTexts(topics) ==
    IF topics = <<>> THEN <<>>
    ELSE (IF topics[1].Text \in {Undefined, ""} THEN <<>> ELSE <<topics[1].Text>>)
            \o TopicTexts(Tail(topics))

Candidates ==
    (IF call.data.Abstract \in {Undefined, ""} THEN <<>> ELSE <<call.data.Abstract>>)
    \o (IF call.data.RelatedTopics.kind = "array"
        THEN TopicTexts([i \in 1..(IF call.maxResults < Len(call.data.RelatedTopics.items)
                                   THEN call.maxResults
                                   ELSE Len(call.data.RelatedTopics.items))
                            |-> call.data.RelatedTopics.items[i]])
        ELSE <<>>)

Succeeded == Returns /\ call.outcome = "body" /\ call.result.ok

\* C6 as claimed: when no candidate is longer than 20 characters, a successful
\* call returns snippets = null, never an empty text.
C6_NoSurvivorGivesNull ==
    (Succeeded /\ \A i \in 1..Len(Candidates) : Len(Candidates[i]) <= 20)
    => call.result.snippets = Null

\* the text of entries "[1] ...", "[2] ..." with a blank line between them
RECURSIVE Numbered(_, _)
Numbered(list, from) ==
    IF list = <<>> THEN ""
    ELSE "[" \o ToString(from) \o "] " \o list[1]
            \o (IF Len(list) > 1 THEN "\n\n" ELSE "")
            \o Numbered(Tail(list), from + 1)

\* the candidates longer than 20 characters among the first i - 1
LongBefore(i) == Cardinality({ j \in 1..(i - 1) : Len(Candidates[j]) > 20 })

\* C7: the formatted output of a successful call has no candidate of 20
\* characters or fewer, at most maxResults entries, and every candidate longer
\* than 20 characters that fewer than maxResults such candidates precede, in
\* candidate order.
C7_FilterAndCap ==
    (Succeeded /\ Len(Candidates) > 0)
    => /\ call.snippets = Candidates
       /\ \A k \in 1..Len(call.kept) : Len(call.kept[k]) > 20
       /\ Len(call.kept) <= call.maxResults
       /\ \A i \in 1..Len(Candidates) :
            (Len(Candidates[i]) > 20 /\ LongBefore(i) < call.maxResults)
            => /\ Len(call.kept) > LongBefore(i)
               /\ call.kept[LongBefore(i) + 1] = Candidates[i]
       /\ \A k \in 1..Len(call.kept) :
            \E i \in 1..Len(Candidates) :
                Candidates[i] = call.kept[k] /\ LongBefore(i) = k - 1
       /\ call.result.snippets = Numbered(call.kept, 1)

\* the cap drops a long candidate: the abstract and maxResults topics, all long
C7_Witness ==
    /\ Succeeded
    /\ Len(call.kept) = call.maxResults
    /\ Len(call.kept) >= 2
    /\ call.result.snippets = "[1] " \o Text21 \o "\n\n" \o "[2] " \o Text30
    /\ \E i \in 1..Len(Candidates) :
          Len(Candidates[i]) > 20 /\ LongBefore(i) >= call.maxResults

\* C8 as claimed: a call that has not returned when 10 s have passed is
\* aborted and returns "Search timed out": no call is still running after
\* its deadline.
C8_ReturnsByDeadline ==
    /\ call.pc \in {"fetch", "json"} => call.elapsed <= SearchTimeout
    /\ (Returns /\ call.timer = "fired" /\ call.outcome = "abort")
          => /\ call.result.ok = FALSE
             /\ call.result.error = "Search timed out"
             /\ call.result.snippets = Null

====
